---- MODULE Spec2Model ----
(***************************************************************************)
(* A model of src/src/main.rs: a 9x9 Sudoku is encoded as CNF clauses,     *)
(* handed to the rsat solver, and the returned assignment is decoded back  *)
(* into the grid.                                                          *)
(*                                                                         *)
(* Three specifications share the variables:                               *)
(*   Spec       Sudoku::new and Sudoku::solve as whole calls, over a       *)
(*              family of input grids and candidate assignments;           *)
(*   SpecSteps  the same pipeline one loop iteration at a time;            *)
(*   SpecRead   read_grid_from_stdin, one line at a time.                  *)
(***************************************************************************)
EXTENDS Naturals, Sequences, FiniteSets

(***************************************************************************)
(* Program constants.                                                      *)
(***************************************************************************)
\* the side of the grid: the 9 of [[u32; 9]; 9] and of every 0..9 loop
N == 9
\* the side of a box: the 3 of (i / 3) * 3 + l / 3
BOX == 3
\* the minimum byte length of an accepted line (line.len() < 9)
MinLineLen == 9

Idx == 0 .. (N - 1)
NVars == N * N * N
Vars == 0 .. (NVars - 1)

(***************************************************************************)
(* Bounds of the model.                                                    *)
(***************************************************************************)
\* clues placed on the empty grid to form an input grid
MaxClues == 2
\* variables flipped in a base assignment to form a candidate assignment
MaxFlips == 1
\* times the program is run again on its own output
MaxCycles == 1
\* lines of an input that differ from the well-formed line
MaxOdd == 1

(***************************************************************************)
(* rsat::Lit: a variable and a negation flag.  Lit::new(var, negated)      *)
(* builds one, !lit flips the flag and keeps the variable.                 *)
(***************************************************************************)
Lit_new(var, negated) == (2 * var) + (IF negated THEN 1 ELSE 0)
LitVar(p) == p \div 2
LitNeg(p) == (p % 2) = 1
Not(p) == Lit_new(LitVar(p), ~LitNeg(p))

(***************************************************************************)
(* Sudoku::new, lines 36-45: the literal table.  The table is kept flat,   *)
(* entry (i, j, k) at position TableIndex(i, j, k) of a function on Vars;  *)
(* the loops visit the entries in that order.                              *)
(***************************************************************************)
TableIndex(i, j, k) == (N * N * i) + (N * j) + k
\* let mut lits = [[[Lit::new(0, false); 9]; 9]; 9]
InitLits == [n \in Vars |-> Lit_new(0, FALSE)]
\* solver.new_var() on a solver that holds nv variables: the new variable
new_var(nv) == nv
\* a faulty variant: the entry of (i, k, j) written in iteration (i, j, k)
AllocStep_kj(st, i, j, k) ==
    [lits |-> [st.lits EXCEPT ![TableIndex(i, k, j)] = Lit_new(new_var(st.nvars), FALSE)],
     nvars |-> st.nvars + 1]
\* *lits_ijk = Lit::new(solver.new_var(), false); st holds the table and the
\* solver's variable count
AllocStep(st, i, j, k) ==
    [lits |-> [st.lits EXCEPT ![TableIndex(i, j, k)] = Lit_new(new_var(st.nvars), FALSE)],
     nvars |-> st.nvars + 1]
RECURSIVE AllocK(_, _, _, _)
AllocK(st, i, j, k) ==
    \* lits_ij.iter_mut().take(9): while an entry is left, and at most 9
    IF k = N \/ TableIndex(i, j, k) \notin DOMAIN st.lits THEN st
    ELSE AllocK(AllocStep(st, i, j, k), i, j, k + 1)
RECURSIVE AllocJ(_, _, _)
AllocJ(st, i, j) ==
    \* lits_i.iter_mut().take(9)
    IF j = N \/ TableIndex(i, j, 0) \notin DOMAIN st.lits THEN st
    ELSE AllocJ(AllocK(st, i, j, 0), i, j + 1)
RECURSIVE AllocI(_, _)
AllocI(st, i) ==
    \* for lits_i in &mut lits
    IF TableIndex(i, 0, 0) \notin DOMAIN st.lits THEN st
    ELSE AllocI(AllocJ(st, i, 0), i + 1)
\* the table and the variable count once the first loop nest has run on a
\* fresh solver
Allocated == AllocI([lits |-> InitLits, nvars |-> 0], 0)

(***************************************************************************)
(* Sudoku::new, lines 51-87: the clauses.  A clause is the sequence of     *)
(* literals passed to solver.new_clause.  The clauses registered are kept  *)
(* in the order of the calls, as one sequence of clauses per iteration     *)
(* (i, j) of the outer loops.                                              *)
(***************************************************************************)
mod_i(i, l) == ((i \div BOX) * BOX) + (l \div BOX)
mod_j(j, l) == ((j \div BOX) * BOX) + (l % BOX)
\* the four conditions of the body of the loop over l
\* a faulty variant: the cell clause registered for k = l too
CellCond_always(k, l) == TRUE
\* a faulty variant: the row test compares j with itself
RowCond_typo(j, l) == j # j
CellCond(k, l) == k # l
RowCond(j, l) == j # l
ColCond(i, l) == i # l
BoxCond(i, j, l) == i # mod_i(i, l) \/ j # mod_j(j, l)
\* vec![!a, !b]
Excl(a, b) == <<Not(a), Not(b)>>
\* the clauses one iteration (k, l) of the inner loops registers, in order
PairClauses(ls, i, j, k, l) ==
    (IF CellCond(k, l)
       THEN <<Excl(ls[TableIndex(i, j, k)], ls[TableIndex(i, j, l)])>> ELSE <<>>) \o
    (IF RowCond(j, l)
       THEN <<Excl(ls[TableIndex(i, j, k)], ls[TableIndex(i, l, k)])>> ELSE <<>>) \o
    (IF ColCond(i, l)
       THEN <<Excl(ls[TableIndex(i, j, k)], ls[TableIndex(l, j, k)])>> ELSE <<>>) \o
    (IF BoxCond(i, j, l)
       THEN <<Excl(ls[TableIndex(i, j, k)], ls[TableIndex(mod_i(i, l), mod_j(j, l), k)])>>
       ELSE <<>>)
RECURSIVE LoopL(_, _, _, _, _)
LoopL(ls, i, j, k, l) ==
    IF l = N THEN <<>> ELSE PairClauses(ls, i, j, k, l) \o LoopL(ls, i, j, k, l + 1)
RECURSIVE LoopK(_, _, _, _)
LoopK(ls, i, j, k) ==
    IF k = N THEN <<>> ELSE LoopL(ls, i, j, k, 0) \o LoopK(ls, i, j, k + 1)
\* cl, after the loop over k has pushed lits[i][j][0..9]
AtLeastOne(ls, i, j) == [k \in 1 .. N |-> ls[TableIndex(i, j, k - 1)]]
\* a faulty variant: the clues are not registered
ClueClauses_none(ls, g, i, j) == <<>>
\* a faulty variant: the clue's digit used as the index, without the - 1
ClueClauses_off(ls, g, i, j) ==
    IF g[i][j] # 0 THEN << <<ls[TableIndex(i, j, g[i][j] % N)]>> >> ELSE <<>>
\* if grid[i][j] != 0 { new_clause(vec![lits[i][j][grid[i][j] - 1]]) }
ClueClauses(ls, g, i, j) ==
    IF g[i][j] # 0 THEN << <<ls[TableIndex(i, j, g[i][j] - 1)]>> >> ELSE <<>>
\* everything one iteration (i, j) of the outer loops registers, in order
CellClauses(ls, g, i, j) ==
    LoopK(ls, i, j, 0) \o <<AtLeastOne(ls, i, j)>> \o ClueClauses(ls, g, i, j)
RECURSIVE EncodeJ(_, _, _, _)
EncodeJ(ls, g, i, j) ==
    IF j = N THEN <<>> ELSE <<CellClauses(ls, g, i, j)>> \o EncodeJ(ls, g, i, j + 1)
RECURSIVE EncodeI(_, _, _)
EncodeI(ls, g, i) ==
    IF i = N THEN <<>> ELSE EncodeJ(ls, g, i, 0) \o EncodeI(ls, g, i + 1)

(***************************************************************************)
(* The solver's side of a clause set: an assignment is a function from     *)
(* the variables to BOOLEAN, and satisfies a clause when one of its        *)
(* literals is true.                                                       *)
(***************************************************************************)
LitTrue(sol, p) == sol[LitVar(p)] # LitNeg(p)
SatisfiesClause(sol, cl) == \E p \in 1 .. Len(cl) : LitTrue(sol, cl[p])
Satisfies(sol, cls) ==
    \A b \in 1 .. Len(cls) : \A c \in 1 .. Len(cls[b]) : SatisfiesClause(sol, cls[b][c])

(***************************************************************************)
(* Sudoku::solve, lines 94-107: the decoder.  st holds self.grid and       *)
(* whether the panic of line 100 has been raised.                          *)
(***************************************************************************)
\* a faulty variant: row and column exchanged
SolIndex_T(i, j, k) == (9 * 9 * j) + (9 * i) + k
\* the index of sol the decoder reads for (i, j, k)
SolIndex(i, j, k) == (9 * 9 * i) + (9 * j) + k
\* a faulty variant: a true variable's digit written without the check against the cell
DecodeStep_nocheck(st, sol, i, j, k) ==
    IF sol[(9 * 9 * i) + (9 * j) + k] THEN [st EXCEPT !.grid[i][j] = k + 1] ELSE st
\* a faulty variant: the digit index written, not the digit
DecodeStep_k(st, sol, i, j, k) ==
    IF sol[(9 * 9 * i) + (9 * j) + k]
    THEN IF st.grid[i][j] # 0 /\ st.grid[i][j] # k + 1
         THEN [st EXCEPT !.panicked = TRUE]
         ELSE [st EXCEPT !.grid[i][j] = k]
    ELSE st
DecodeStep(st, sol, i, j, k) ==
    IF sol[SolIndex(i, j, k)]
    THEN IF st.grid[i][j] # 0 /\ st.grid[i][j] # k + 1
         THEN [st EXCEPT !.panicked = TRUE]
         ELSE [st EXCEPT !.grid[i][j] = k + 1]
    ELSE st
RECURSIVE DecodeK(_, _, _, _, _)
DecodeK(st, sol, i, j, k) ==
    IF k = N \/ st.panicked THEN st
    ELSE DecodeK(DecodeStep(st, sol, i, j, k), sol, i, j, k + 1)
RECURSIVE DecodeJ(_, _, _, _)
DecodeJ(st, sol, i, j) ==
    IF j = N \/ st.panicked THEN st ELSE DecodeJ(DecodeK(st, sol, i, j, 0), sol, i, j + 1)
RECURSIVE DecodeI(_, _, _)
DecodeI(st, sol, i) ==
    IF i = N \/ st.panicked THEN st ELSE DecodeI(DecodeJ(st, sol, i, 0), sol, i + 1)

\* the two panics of Sudoku::solve
CouldntSolve == "panic: Couldn't solve!"
SomethingWrong == "panic: Something wrong, couldn't solve!"

(***************************************************************************)
(* The families the inputs are drawn from.                                 *)
(***************************************************************************)
ZeroGrid == [i \in Idx |-> [j \in Idx |-> 0]]
\* a completed Sudoku, and the same with the digits 1 and 9 exchanged
S0 == [i \in Idx |-> [j \in Idx |-> ((BOX * (i % BOX) + (i \div BOX) + j) % N) + 1]]
S1 == [i \in Idx |-> [j \in Idx |->
         IF S0[i][j] = 1 THEN N ELSE IF S0[i][j] = N THEN 1 ELSE S0[i][j]]]
\* S0 transposed: a completed Sudoku too
T0 == [i \in Idx |-> [j \in Idx |-> S0[j][i]]]
\* complete grids that break exactly one of the three rules: the rows (the
\* first band's rows rotated inside the last stack), the columns (its
\* transpose), the boxes (a cyclic Latin square)
RowBad == [i \in Idx |-> [j \in Idx |->
             IF i < BOX /\ j >= N - BOX THEN S0[(i + 1) % BOX][j] ELSE S0[i][j]]]
ColBad == [i \in Idx |-> [j \in Idx |-> RowBad[j][i]]]
BoxBad == [i \in Idx |-> [j \in Idx |-> ((i + j) % N) + 1]]
\* S0 with two cells in three blanked
Puzzle == [i \in Idx |-> [j \in Idx |-> IF (i + (2 * j)) % 3 = 0 THEN S0[i][j] ELSE 0]]

\* the cells and digits clues are placed at
ProbeCells == {<<0, 0>>, <<0, 1>>, <<0, 6>>, <<1, 1>>, <<8, 0>>, <<4, 4>>}
ProbeDigits == {1, N}
RECURSIVE Placed(_)
Placed(m) ==
    IF m = 0 THEN {ZeroGrid}
    ELSE LET prev == Placed(m - 1)
         IN  prev \cup {[g EXCEPT ![c[1]][c[2]] = d] :
                            g \in prev, c \in ProbeCells, d \in ProbeDigits}
Grids == Placed(MaxClues) \cup {Puzzle, S0}

\* the assignment that makes exactly the variables of a complete grid true
FromGrid(g) == [v \in Vars |-> g[v \div (N * N)][(v \div N) % N] = (v % N) + 1]
Flip(sol, F) == [v \in Vars |-> IF v \in F THEN ~sol[v] ELSE sol[v]]
ProbeVars == {0, 1, 368, 728}
Flips == {F \in SUBSET ProbeVars : Cardinality(F) <= MaxFlips}
BaseSols == {FromGrid(S0), FromGrid(S1), FromGrid(T0), FromGrid(RowBad),
             FromGrid(ColBad), FromGrid(BoxBad),
             [v \in Vars |-> FALSE], [v \in Vars |-> TRUE]}
Sols == {Flip(b, F) : b \in BaseSols, F \in Flips}

(***************************************************************************)
(* rsat's solve, as this program sees it.  The model assumes of the solver *)
(* only that an assignment it returns as Sat satisfies the clauses; it may *)
(* give up (Unsat, Unknown, Best) on any input.                            *)
(***************************************************************************)
Sat(sol) == [tag |-> "Sat", sol |-> sol]
NoSol == [v \in Vars |-> FALSE]
Failure(t) == [tag |-> t, sol |-> NoSol]
Failures == {Failure("Unsat"), Failure("Unknown"), Failure("Best")}
SoundResults(cls) == {Sat(sol) : sol \in {a \in Sols : Satisfies(a, cls)}} \cup Failures

VARIABLES pc, grid, grid0, nvars, lits, clauses, n, solution, cycle, stdin, odd

vars == <<pc, grid, grid0, nvars, lits, clauses, n, solution, cycle, stdin, odd>>

(***************************************************************************)
(* Spec: main from Sudoku::new on, each call one step.                     *)
(*   pc        where main stands                                           *)
(*   grid      the grid handed to Sudoku::new, then self.grid              *)
(*   grid0     the grid as it was handed to Sudoku::new                    *)
(*   nvars     the number of variables the solver holds                    *)
(*   lits      the literal table of Sudoku::new                            *)
(*   clauses   the clauses registered with the solver, in order, a         *)
(*             sequence of clauses per iteration (i, j)                    *)
(*   solution  what solver.solve returned                                  *)
(*   cycle     how many times the output has been fed back as input        *)
(***************************************************************************)
Fresh == /\ nvars = 0 /\ lits = InitLits /\ clauses = <<>> /\ n = 0
         /\ solution = Failure("None") /\ stdin = <<>> /\ odd = 0

Init == /\ pc = "new" /\ grid \in Grids /\ grid0 = grid /\ cycle = 0 /\ Fresh

\* Sudoku::new(grid)
New == /\ pc = "new"
       /\ nvars' = Allocated.nvars
       /\ lits' = Allocated.lits
       /\ clauses' = EncodeI(Allocated.lits, grid, 0)
       /\ pc' = "solve"
       /\ UNCHANGED <<grid, grid0, n, solution, cycle, stdin, odd>>

\* sudoku.solve()
Solve == /\ pc = "solve"
         /\ \E r \in SoundResults(clauses) :
              /\ solution' = r
              /\ IF r.tag = "Sat"
                 THEN LET st == DecodeI([grid |-> grid, panicked |-> FALSE], r.sol, 0)
                      IN  /\ grid' = st.grid
                          /\ pc' = IF st.panicked THEN SomethingWrong ELSE "done"
                 ELSE /\ grid' = grid
                      /\ pc' = CouldntSolve
         /\ UNCHANGED <<grid0, nvars, lits, clauses, n, cycle, stdin, odd>>

\* the program is run again, on the grid it printed
Again == /\ pc = "done" /\ cycle < MaxCycles
         /\ pc' = "new" /\ grid0' = grid /\ cycle' = cycle + 1
         /\ nvars' = 0 /\ lits' = InitLits /\ clauses' = <<>>
         /\ solution' = Failure("None")
         /\ UNCHANGED <<grid, n, stdin, odd>>

Next == New \/ Solve \/ Again

Spec == Init /\ [][Next]_vars

(***************************************************************************)
(* SpecSteps: the same run, one loop iteration a step: an iteration of the *)
(* innermost loop of the allocation and of the decoder, an iteration of    *)
(* the outermost loop (a row of cells) of the clause loops.  n counts the  *)
(* iterations of the loop nest pc names.  Here the solver is any solver:   *)
(* it may return any assignment as Sat.                                    *)
(* SpecCells: the clause loops alone, from the state the allocation leaves,*)
(* an iteration (i, j) a step.                                             *)
(* SpecDecode: Sudoku::solve alone, from the state Sudoku::new leaves.     *)
(***************************************************************************)
StepGrids == {ZeroGrid, Puzzle, [ZeroGrid EXCEPT ![0][0] = 1, ![0][1] = 1]}
StepSols == {FromGrid(S0), FromGrid(S1), Flip(FromGrid(S0), {1}),
             Flip(FromGrid(S0), {NVars - 1}), [v \in Vars |-> FALSE]}
AnyResults == {Sat(sol) : sol \in StepSols} \cup Failures

\* the loop indices of the n-th iteration of a loop nest over (i, j, k)
I_of(m) == m \div (N * N)
J_of(m) == (m \div N) % N
K_of(m) == m % N
\* the loop nests are over: m iterations have run
\* a faulty variant: the loop over the rows stops one row early
EncodeDone_short(m) == m = N - 1
AllocDone(m) == m = N * N * N
EncodeDone(m) == m = N
CellsDone(m) == m = N * N
DecodeDone(m) == m = N * N * N

InitSteps == /\ pc = "alloc" /\ grid \in StepGrids /\ grid0 = grid /\ cycle = 0 /\ Fresh

\* one iteration of lines 38-45
NewVar ==
    /\ pc = "alloc"
    /\ LET st == AllocStep([lits |-> lits, nvars |-> nvars], I_of(n), J_of(n), K_of(n))
       IN  lits' = st.lits /\ nvars' = st.nvars
    /\ IF AllocDone(n + 1) THEN pc' = "encode" /\ n' = 0 ELSE pc' = pc /\ n' = n + 1
    /\ UNCHANGED <<grid, grid0, clauses, solution, cycle, stdin, odd>>

\* one iteration i of lines 51-87; after the last, Sudoku { grid, solver }
EncodeRow ==
    /\ pc = "encode"
    /\ clauses' = clauses \o EncodeJ(lits, grid, n, 0)
    /\ IF EncodeDone(n + 1) THEN pc' = "solve" /\ n' = 0 ELSE pc' = pc /\ n' = n + 1
    /\ UNCHANGED <<grid, grid0, nvars, lits, solution, cycle, stdin, odd>>

\* self.solver.solve(vec![]) and the match on its result
CallSolve ==
    /\ pc = "solve"
    /\ \E r \in AnyResults :
         /\ solution' = r
         /\ pc' = IF r.tag = "Sat" THEN "decode" ELSE CouldntSolve
    /\ UNCHANGED <<grid, grid0, nvars, lits, clauses, n, cycle, stdin, odd>>

\* one iteration (i, j, k) of lines 95-105
DecodeLit ==
    /\ pc = "decode"
    /\ LET st == DecodeStep([grid |-> grid, panicked |-> FALSE], solution.sol,
                            I_of(n), J_of(n), K_of(n))
       IN  /\ grid' = st.grid
           /\ IF st.panicked THEN pc' = SomethingWrong /\ n' = n
              ELSE IF DecodeDone(n + 1) THEN pc' = "done" /\ n' = n + 1
              ELSE pc' = pc /\ n' = n + 1
    /\ UNCHANGED <<grid0, nvars, lits, clauses, solution, cycle, stdin, odd>>

NextSteps == NewVar \/ EncodeRow \/ CallSolve \/ DecodeLit

SpecSteps == InitSteps /\ [][NextSteps]_vars

InitCells == /\ pc = "cells" /\ grid \in StepGrids /\ grid0 = grid /\ cycle = 0
             /\ nvars = Allocated.nvars /\ lits = Allocated.lits /\ clauses = <<>>
             /\ n = 0 /\ solution = Failure("None") /\ stdin = <<>> /\ odd = 0

\* one iteration (i, j) of lines 52-86
EncodeCell ==
    /\ pc = "cells"
    /\ clauses' = Append(clauses, CellClauses(lits, grid, n \div N, n % N))
    /\ IF CellsDone(n + 1) THEN pc' = "solve" /\ n' = 0 ELSE pc' = pc /\ n' = n + 1
    /\ UNCHANGED <<grid, grid0, nvars, lits, solution, cycle, stdin, odd>>

NextCells == EncodeCell

SpecCells == InitCells /\ [][NextCells]_vars

InitDecode == /\ pc = "solve" /\ grid \in StepGrids /\ grid0 = grid /\ cycle = 0
              /\ nvars = Allocated.nvars /\ lits = Allocated.lits
              /\ clauses = EncodeI(Allocated.lits, grid, 0)
              /\ n = 0 /\ solution = Failure("None") /\ stdin = <<>> /\ odd = 0

NextDecode == CallSolve \/ DecodeLit

SpecDecode == InitDecode /\ [][NextDecode]_vars

(***************************************************************************)
(* SpecRead: read_grid_from_stdin, a line a step, and the unwrap of main.  *)
(* A character is a string; a line is the sequence of characters           *)
(* read_line returns, its terminator included, and empty at end of input.  *)
(*   stdin   the lines read so far                                         *)
(*   n       the row being read                                            *)
(*   odd     how many of the lines read are not the well-formed line       *)
(***************************************************************************)
\* a character that takes two bytes in UTF-8
TwoByte == "U+00E9"
Utf8Len(c) == IF c = TwoByte THEN 2 ELSE 1
RECURSIVE ByteLen(_)
\* line.len(): the length of the line in bytes
ByteLen(line) == IF line = <<>> THEN 0 ELSE Utf8Len(Head(line)) + ByteLen(Tail(line))
DigitChars == <<"1", "2", "3", "4", "5", "6", "7", "8", "9">>
\* c @ '1'..='9' => c as u32 - '0' as u32, _ => 0
CellOf(c) ==
    IF \E d \in 1 .. 9 : DigitChars[d] = c
    THEN CHOOSE d \in 1 .. 9 : DigitChars[d] = c
    ELSE 0
\* if line.len() < 9 { return None; }
ReadAccepts(line) == ByteLen(line) >= MinLineLen

LineBodies == {<<"5", "3", ".", ".", "7", ".", ".", ".", ".">>,
               <<"1", "2", "3", "4", "5", "6", "7", "8">>,
               <<"1", "2", "3", "4", "5", "6", "7", "8", "9", "0">>,
               <<>>,
               <<TwoByte, TwoByte, TwoByte, TwoByte>>,
               <<"1", "2", "3", "4", "5", "6", "7", TwoByte>>}
Terminators == {<<>>, <<"\n">>, <<"\r", "\n">>}
Lines == {b \o t : b \in LineBodies, t \in Terminators}
GoodLine == <<"5", "3", ".", ".", "7", ".", ".", ".", ".", "\n">>
EndsLine(line) == line # <<>> /\ line[Len(line)] = "\n"
\* the input is over once a line came without its terminator
AtEof == stdin # <<>> /\ ~EndsLine(stdin[Len(stdin)])

IndexPanic == "panic: index out of bounds"
UnwrapPanic == "panic: called Option::unwrap() on a None value"

InitRead == /\ pc = "read" /\ grid = ZeroGrid /\ grid0 = ZeroGrid /\ cycle = 0 /\ Fresh

\* one iteration of the loop of lines 122-134
ReadLine ==
    /\ pc = "read"
    /\ \E line \in Lines :
         /\ IF AtEof THEN line = <<>> /\ odd' = odd
            ELSE IF line = GoodLine THEN odd' = odd
            ELSE odd < MaxOdd /\ odd' = odd + 1
         /\ stdin' = Append(stdin, line)
         /\ IF ~ReadAccepts(line)
            THEN pc' = "none" /\ grid' = grid /\ n' = n
            ELSE IF Len(line) < N
            THEN \* line.chars().collect::<Vec<char>>()[j] with j = Len(line)
                 /\ pc' = IndexPanic /\ n' = n
                 /\ grid' = [grid EXCEPT ![n] =
                                [j \in Idx |-> IF j < Len(line) THEN CellOf(line[j + 1]) ELSE 0]]
            ELSE /\ grid' = [grid EXCEPT ![n] = [j \in Idx |-> CellOf(line[j + 1])]]
                 /\ n' = n + 1
                 /\ pc' = IF n + 1 = N THEN "some" ELSE "read"
    /\ UNCHANGED <<grid0, nvars, lits, clauses, solution, cycle>>

\* Sudoku::new(read_grid_from_stdin().unwrap())
Unwrap ==
    /\ \/ pc = "none" /\ pc' = UnwrapPanic /\ grid0' = grid0
       \/ pc = "some" /\ pc' = "new" /\ grid0' = grid
    /\ UNCHANGED <<grid, nvars, lits, clauses, n, solution, cycle, stdin, odd>>

NextRead == ReadLine \/ Unwrap

SpecRead == InitRead /\ [][NextRead]_vars

(***************************************************************************)
(* What the claims speak of.                                               *)
(***************************************************************************)
Cells == Idx \X Idx
\* the variable Sudoku::new allocated for (i, j, k)
VarOf(i, j, k) == LitVar(lits[TableIndex(i, j, k)])
SameBox(a, b) == a[1] \div BOX = b[1] \div BOX /\ a[2] \div BOX = b[2] \div BOX
\* two different cells of one row, one column or one box
Peers(a, b) == a # b /\ (a[1] = b[1] \/ a[2] = b[2] \/ SameBox(a, b))
\* the rules of Sudoku and the clues of g, over the allocated variables
ExactlyOnePerCell(sol) ==
    \A c \in Cells : \E k \in Idx :
        /\ sol[VarOf(c[1], c[2], k)]
        /\ \A k2 \in Idx \ {k} : ~sol[VarOf(c[1], c[2], k2)]
NoDigitTwice(sol) ==
    \A a \in Cells : \A k \in Idx :
        sol[VarOf(a[1], a[2], k)] =>
            \A b \in Cells : Peers(a, b) => ~sol[VarOf(b[1], b[2], k)]
CluesHold(sol, g) ==
    \A c \in Cells : g[c[1]][c[2]] # 0 => sol[VarOf(c[1], c[2], g[c[1]][c[2]] - 1)]
Rules(sol, g) == ExactlyOnePerCell(sol) /\ NoDigitTwice(sol) /\ CluesHold(sol, g)

Digits == 1 .. N
\* every row, every column and every box is a permutation of 1..9
ValidComplete(g) ==
    /\ \A i \in Idx : {g[i][j] : j \in Idx} = Digits
    /\ \A j \in Idx : {g[i][j] : i \in Idx} = Digits
    /\ \A b \in Idx : {g[mod_i(BOX * (b \div BOX), l)][mod_j(BOX * (b % BOX), l)] : l \in Idx}
                         = Digits
CluesKept(g0, g) == \A c \in Cells : g0[c[1]][c[2]] # 0 => g[c[1]][c[2]] = g0[c[1]][c[2]]
\* two different cells of a row, a column or a box hold the same digit
Conflicting(g) ==
    \E a \in Cells : \E b \in Cells :
        Peers(a, b) /\ g[a[1]][a[2]] # 0 /\ g[a[1]][a[2]] = g[b[1]][b[2]]
AfterSolve == pc \in {"done", CouldntSolve, SomethingWrong}

\* C1: the clauses Sudoku::new registers are satisfied by exactly the
\* assignments that obey the rules of Sudoku (one digit per cell, no digit
\* twice in a row, a column or a box) and make every clue of the grid true.
C1_ClausesEquivalentToRules ==
    pc = "solve" => \A sol \in Sols : Satisfies(sol, clauses) <=> Rules(sol, grid0)
\* a grid with a clue, with an assignment that satisfies the clauses and
\* others that break one rule each
C1_Witness ==
    /\ pc = "solve" /\ grid0[0][0] = 1 /\ grid0[4][4] = N
    /\ Satisfies(FromGrid(S0), clauses)
    /\ ~Satisfies(FromGrid(S1), clauses)
    /\ ~Satisfies(FromGrid(BoxBad), clauses)

\* C2: when the solver returns an assignment that satisfies the clauses,
\* Sudoku::solve returns without a panic and leaves a completed Sudoku (every
\* row, column and box a permutation of 1..9) in which every clue of the
\* input is kept; and the clauses of the all-zero grid have such an
\* assignment.
C2_SolveLeavesValidGrid ==
    /\ (AfterSolve /\ solution.tag = "Sat" /\ Satisfies(solution.sol, clauses)) =>
           (pc = "done" /\ ValidComplete(grid) /\ CluesKept(grid0, grid))
    /\ (pc = "solve" /\ grid0 = ZeroGrid) => \E sol \in Sols : Satisfies(sol, clauses)
C2_Witness ==
    /\ pc = "done" /\ cycle = 0 /\ grid0 = ZeroGrid
    /\ solution.tag = "Sat" /\ grid = S1

\* C3: when two cells of a row, a column or a box of the input hold the same
\* digit, no assignment satisfies the clauses, the solver cannot answer Sat,
\* and Sudoku::solve ends in the panic "Couldn't solve!".
C3_ConflictingCluesUnsat ==
    (Conflicting(grid0) /\ pc # "new") =>
        /\ \A sol \in Sols : ~Satisfies(sol, clauses)
        /\ solution.tag # "Sat"
        /\ AfterSolve => pc = CouldntSolve
\* the digit 9 twice in the first box, in no common row or column
C3_Witness ==
    /\ pc = CouldntSolve /\ solution.tag = "Unsat"
    /\ grid0[0][0] = N /\ grid0[1][1] = N

\* C6: when the program is run again on a grid it produced, every
\* satisfying assignment the solver returns decodes without a panic to that
\* same grid.
C6_SolvedGridIsFixedPoint ==
    (cycle >= 1 /\ AfterSolve /\ solution.tag = "Sat") => (pc = "done" /\ grid = grid0)
C6_Witness ==
    /\ cycle = 1 /\ pc = "done" /\ solution.tag = "Sat"
    /\ grid0 = T0 /\ grid = T0

\* the clause lists of two other runs of Sudoku::new: on the grid with no
\* clue and on the grid with 81
RefRuns == {EncodeI(Allocated.lits, g, 0) : g \in {ZeroGrid, S0}}
IsUnit(cl) == Len(cl) = 1
NotUnit(cl) == Len(cl) # 1
Filled(g) == {c \in Cells : g[c[1]][c[2]] # 0}
\* C8: the clauses that are not unit clauses are the same, in number and in
\* order, whatever the grid; the unit clauses are one per non-zero cell, the
\* positive literal of that cell's digit, registered in that cell's
\* iteration, and none for a zero cell.
C8_OnlyCluesDependOnGrid ==
    pc = "solve" =>
        /\ \A ref \in RefRuns :
              /\ Len(clauses) = Len(ref)
              /\ \A b \in 1 .. Len(clauses) :
                    SelectSeq(clauses[b], NotUnit) = SelectSeq(ref[b], NotUnit)
        /\ \A b \in 1 .. Len(clauses) :
              LET c == <<(b - 1) \div N, (b - 1) % N>>
              IN  SelectSeq(clauses[b], IsUnit) =
                      IF c \in Filled(grid0)
                      THEN << <<Lit_new(VarOf(c[1], c[2], grid0[c[1]][c[2]] - 1), FALSE)>> >>
                      ELSE <<>>
C8_Witness ==
    /\ pc = "solve" /\ grid0 = Puzzle
    /\ SelectSeq(clauses[1], IsUnit) = << <<Lit_new(0, FALSE)>> >>
    /\ SelectSeq(clauses[2], IsUnit) = <<>>

(***************************************************************************)
(* Claims about the run step by step, under SpecSteps, SpecCells and       *)
(* SpecDecode.                                                             *)
(***************************************************************************)
IsAtLeastOne(cl) == Len(cl) = N
IsBinary(cl) == Len(cl) = 2
\* the positive literals of the m-th cell in row-major order, m from 1
CellLits(m) ==
    [k \in 1 .. N |-> Lit_new(SolIndex((m - 1) \div N, (m - 1) % N, k - 1), FALSE)]
\* the number of cells whose clauses are registered
CellsEncoded == IF pc = "alloc" THEN 0 ELSE IF pc = "encode" THEN N * n ELSE N * N

\* C5: Sudoku::new allocates 729 distinct variables in row-major, column,
\* digit order, so that lits[i][j][k] is the positive literal of variable
\* 81 i + 9 j + k, the index Sudoku::solve reads for (i, j, k); and it
\* registers one clause of a cell's 9 positive literals per cell, 81 in all.
C5_VariablesAndAtLeastOne ==
    /\ pc = "alloc" =>
          /\ nvars = n
          /\ \A m \in Vars : lits[m] = Lit_new(IF m < n THEN m ELSE 0, FALSE)
    /\ pc # "alloc" =>
          /\ nvars = 729
          /\ \A i \in Idx : \A j \in Idx : \A k \in Idx :
                lits[TableIndex(i, j, k)] = Lit_new(SolIndex(i, j, k), FALSE)
          /\ Cardinality({LitVar(lits[m]) : m \in Vars}) = 729
    /\ pc \in {"encode", "solve"} =>
          /\ Len(clauses) = CellsEncoded
          /\ \A m \in 1 .. Len(clauses) :
                SelectSeq(clauses[m], IsAtLeastOne) = <<CellLits(m)>>
C5_Witness ==
    /\ pc = "solve" /\ nvars = 729 /\ grid0 = Puzzle
    /\ Len(clauses) = 81
    /\ SelectSeq(clauses[81], IsAtLeastOne) = <<CellLits(81)>>
    /\ lits[TableIndex(8, 8, 8)] = Lit_new(728, FALSE)

\* C7: in the decoder, when the variable of (i, j, k) is true and
\* grid[i][j] already holds a non-zero value other than k + 1, the step
\* panics with "Something wrong, couldn't solve!" and leaves the grid as it
\* is; and no step ever replaces a non-zero cell by a different value.
C7_DecodeNeverOverwrites ==
    [][ /\ (/\ pc = "decode"
            /\ solution.sol[SolIndex(I_of(n), J_of(n), K_of(n))]
            /\ grid[I_of(n)][J_of(n)] # 0
            /\ grid[I_of(n)][J_of(n)] # K_of(n) + 1)
           => (pc' = SomethingWrong /\ grid' = grid)
        /\ \A c \in Cells : grid[c[1]][c[2]] # 0 => grid'[c[1]][c[2]] = grid[c[1]][c[2]]
      ]_vars
\* the clue 1 at (0, 0) against an assignment that makes the 2 of (0, 0) true
C7_Witness ==
    /\ pc = SomethingWrong /\ n = 1
    /\ grid0[0][0] = 1 /\ grid[0][0] = 1 /\ solution.sol[SolIndex(0, 0, 1)]

\* C9 as stated: no binary clause pairs a literal with itself, and no two
\* binary clauses consist of the same unordered pair of literals.
C9_NoPairTwice ==
    \A b \in 1 .. Len(clauses) : \A x \in 1 .. Len(clauses[b]) :
        IsBinary(clauses[b][x]) =>
            /\ clauses[b][x][1] # clauses[b][x][2]
            /\ \A b2 \in 1 .. Len(clauses) : \A y \in 1 .. Len(clauses[b2]) :
                  (<<b, x>> # <<b2, y>> /\ IsBinary(clauses[b2][y])) =>
                      {clauses[b][x][1], clauses[b][x][2]} #
                          {clauses[b2][y][1], clauses[b2][y][2]}

\* the possibilities (cell, digit) that exclude the possibility (a, k): the
\* other digits of the cell, and the same digit in the cell's peers
ExcludedBy(a, k) ==
    {<<a, k2>> : k2 \in Idx \ {k}} \cup {<<b, k>> : b \in {c \in Cells : Peers(a, c)}}
PosLit(q) == Lit_new(SolIndex(q[1][1], q[1][2], q[2]), FALSE)
Count(seq, cl) == Cardinality({x \in 1 .. Len(seq) : seq[x] = cl})
\* how often the iteration of cell a registers the exclusion of (a, k) and q:
\* once per family that covers the two cells
Times(a, q) ==
    IF a # q[1] /\ SameBox(a, q[1]) /\ (a[1] = q[1][1] \/ a[2] = q[1][2]) THEN 2 ELSE 1
\* C9, amended: no binary clause pairs a literal with itself, and every pair
\* of mutually exclusive possibilities is forbidden; but not by exactly one
\* clause: the iteration of each cell registers, for each of its digits and
\* each possibility that excludes it, the clause of the two negated literals
\* once, and twice when the other cell shares the box and also the row or the
\* column; it registers no other binary clause.
C9_PairsForbiddenRepeatedly ==
    (pc \in {"cells", "solve"} /\ clauses # <<>>) =>
        LET block == clauses[Len(clauses)]
            a == <<(Len(clauses) - 1) \div N, (Len(clauses) - 1) % N>>
            wanted == UNION {{<<k, q>> : q \in ExcludedBy(a, k)} : k \in Idx}
        IN  /\ \A x \in 1 .. Len(block) :
                  IsBinary(block[x]) =>
                      /\ block[x][1] # block[x][2]
                      /\ \E kq \in wanted :
                            block[x] = Excl(PosLit(<<a, kq[1]>>), PosLit(kq[2]))
            /\ \A kq \in wanted :
                  Count(block, Excl(PosLit(<<a, kq[1]>>), PosLit(kq[2]))) = Times(a, kq[2])
\* the cell (0, 0) encoded: (0, 0, 0) and (0, 1, 0) excluded twice, (0, 0, 0)
\* and (0, 8, 0) once
C9_Witness ==
    /\ pc = "cells" /\ n = 1
    /\ Count(clauses[1], Excl(Lit_new(0, FALSE), Lit_new(9, FALSE))) = 2
    /\ Count(clauses[1], Excl(Lit_new(0, FALSE), Lit_new(72, FALSE))) = 1

\* C10: the variables are allocated, then the clauses registered, then the
\* solver called once, then the grid decoded; the grid is the input grid
\* until the decoder runs, changes only in the decoder after a Sat answer,
\* and is still the input grid when the run panics with "Couldn't solve!"
\* on Unsat, Unknown or Best.
C10_StrictlyOrdered ==
    /\ [](/\ pc \in {"alloc", "encode", "solve"} =>
                (grid = grid0 /\ solution.tag = "None")
          /\ pc = "encode" => nvars = 729
          /\ pc = "solve" => (nvars = 729 /\ clauses = EncodeI(lits, grid0, 0))
          /\ pc = CouldntSolve =>
                (grid = grid0 /\ solution.tag \in {"Unsat", "Unknown", "Best"})
          /\ pc \in {"decode", "done", SomethingWrong} => solution.tag = "Sat")
    /\ [][/\ grid' # grid => (pc = "decode" /\ solution.tag = "Sat")
          /\ nvars' # nvars => pc = "alloc"
          /\ clauses' # clauses => pc = "encode"
          /\ solution' # solution => (pc = "solve" /\ solution.tag = "None")
          /\ grid0' = grid0
       ]_vars
C10_Witness ==
    /\ pc = CouldntSolve /\ solution.tag = "Unknown"
    /\ grid = Puzzle /\ Len(clauses) = 81

(***************************************************************************)
(* The claim about read_grid_from_stdin, under SpecRead.                   *)
(***************************************************************************)
\* the characters of a line before its terminator
Content(line) == IF EndsLine(line) THEN SubSeq(line, 1, Len(line) - 1) ELSE line
\* the input has fewer than 9 lines (the line read at end of input is
\* empty), or one of the lines read has fewer than 9 characters
ShortInput == \E r \in 1 .. Len(stdin) : Len(Content(stdin[r])) < 9
ReadReturned == pc \in {"some", "none", "new", UnwrapPanic, IndexPanic}
\* C4: when the input has fewer than 9 lines, or one of its first 9 lines
\* has fewer than 9 characters before its terminator, read_grid_from_stdin
\* returns None: it does not panic and does not return a grid.
C4_ShortInputYieldsNone ==
    (ReadReturned /\ ShortInput) => pc \in {"none", UnwrapPanic}
====
